---- MODULE Spec2Model ----
(***************************************************************************)
(* Verse retrieval and ranking engine of the Bhagavad Gita chatbot:        *)
(* text normalisation, similarity scoring, usage-aware scoring and the     *)
(* chapter-diversity selection of GitaProcessor.find_relevant_verses.      *)
(*                                                                         *)
(* Numbers: every float of the source is modelled as an exact rational     *)
(* [n |-> numerator, d |-> denominator] with d > 0.  Python's 0-based      *)
(* positions are 1-based here.                                             *)
(***************************************************************************)
EXTENDS Integers, Sequences, FiniteSets

VARIABLES
    \* ---- GitaProcessor / st.session_state ----
    nltk_missing,       \* the NLTK data (punkt, stopwords, wordnet, tagger) could not be downloaded
    processed_verses,   \* self.processed_verses: normalised token list of every verse
    verse_usage,        \* st.session_state.verse_usage: dict verse_id -> count
    chapter_usage,      \* st.session_state.chapter_usage: dict chapter -> count
    last_verses,        \* st.session_state.last_verses: set of verse_id
    \* ---- what the last call of find_relevant_verses was given and gave back ----
    calls,              \* number of calls made so far
    question,           \* the question of the last call (raw words)
    top_n,              \* the top_n of the last call
    returned,           \* the rows of the returned DataFrame, as corpus positions, in order
    raised,             \* TRUE iff the last call let an exception escape
    outcome,            \* "none" | "ok" (line 172) | "failed" (line 176) | "raised"
    error_log,          \* monitor.log_error events of the last call, by context
    pre_verse_usage,    \* verse_usage when the last call started
    pre_chapter_usage,  \* chapter_usage when the last call started
    pre_last_verses,    \* last_verses when the last call started
    sink_down,          \* the log handlers of the monitor cannot write their records
    nominal_returned,   \* what the last call returns, for the same random draws, when
                        \* every monitor call of it succeeds
    \* ---- calculate_similarity called on its own ----
    sim_text1, sim_text2,     \* the two normalised texts (token lists)
    sim_known, sim_related,   \* the semantic resource: tokens with synsets, related pairs
    sim_missing,              \* the semantic resource is unavailable
    sim_done,                 \* the call has returned
    sim_result,               \* the returned similarity (a rational)
    sim_errors,               \* monitor.log_error events of the call
    \* ---- calculate_verse_score called on two verses ----
    sc_x, sc_y,               \* corpus positions of the two verses
    sc_base, sc_jitter,       \* the common base similarity and random factor
    sc_done,                  \* both calls have returned
    sc_fx, sc_fy,             \* the two final scores
    \* ---- the selection of lines 120-140 on a sorted list of its own ----
    sel_ranked,               \* verse_scores after the sort of line 118
    sel_n,                    \* top_n
    sel_done,                 \* the selection has run
    sel_result,               \* selected_verses when the while loop has ended
    \* ---- lines 100-118 (scoring and sort) on the corpus A, B, C ----
    rk_sims,                  \* similarity of each verse to the question
    rk_vu, rk_cu, rk_lv,      \* verse_usage, chapter_usage and last_verses of the session
    rk_jit,                   \* the random factor drawn for each verse
    rk_done,                  \* the sort has run
    rk_sorted,                \* verse_scores after the sort
    \* ---- ResponseGenerator.generate_response ----
    api_outcomes,             \* how each attempt of the API call ended, in order
    api_done,                 \* generate_response has ended
    gen_answer,               \* the dict it returned
    gen_raised,               \* TRUE iff it let an exception escape
    \* ---- RateLimiter ----
    rl_now,                   \* time.time(), in seconds
    rl_requests,              \* self.requests: dict client_id -> list of timestamps
    rl_admitted,              \* timestamps of the calls that returned True, per client
    rl_last,                  \* the last call: client, time, returned value
    \* ---- handle_user_input, per session and script run ----
    hd_pc,                    \* position of each run in handle_user_input
    hd_question,              \* user_question of each run
    hd_processing,            \* st.session_state.processing
    hd_last,                  \* st.session_state.last_processed_question
    hd_usage,                 \* st.session_state.verse_usage[v] for one verse v
    hd_read,                  \* the count a run has read at line 39 and not yet stored
    hd_retrievals,            \* retrievals of the session that selected v so far
    hd_conversation,          \* st.session_state.conversation: list of entries
    \* ---- EnhancedChatbotMonitor: active sessions ----
    mon_now,                  \* time.time(), in seconds since the epoch
    mon_ticks,                \* clock steps taken so far
    mon_metrics,              \* self._metrics, without its counters and the set below
    mon_active,               \* self._metrics['active_sessions']
    mon_interaction,          \* per session: has log_interaction run, and when last
    mon_removed,              \* sessions the last cleanup removed, each with the seconds
                              \* since its last log_interaction
    mon_kept                  \* sessions the last cleanup kept

retrieval_vars == <<nltk_missing, processed_verses, verse_usage, chapter_usage, last_verses,
                    calls, question, top_n, returned, raised, outcome, error_log,
                    pre_verse_usage, pre_chapter_usage, pre_last_verses,
                    sink_down, nominal_returned>>
sim_vars == <<sim_text1, sim_text2, sim_known, sim_related, sim_missing, sim_done, sim_result,
             sim_errors>>
score_vars == <<sc_x, sc_y, sc_base, sc_jitter, sc_done, sc_fx, sc_fy>>
select_vars == <<sel_ranked, sel_n, sel_done, sel_result>>
rank_vars == <<rk_sims, rk_vu, rk_cu, rk_lv, rk_jit, rk_done, rk_sorted>>
api_vars == <<api_outcomes, api_done, gen_answer, gen_raised>>
rate_vars == <<rl_now, rl_requests, rl_admitted, rl_last>>
handler_vars == <<hd_pc, hd_question, hd_processing, hd_last, hd_usage, hd_read,
                  hd_retrievals, hd_conversation>>
monitor_vars == <<mon_now, mon_ticks, mon_metrics, mon_active, mon_interaction,
                  mon_removed, mon_kept>>
vars == <<retrieval_vars, sim_vars, score_vars, select_vars,
          rank_vars, api_vars, rate_vars, handler_vars, monitor_vars>>
not_handler_vars == <<retrieval_vars, sim_vars, score_vars, select_vars,
                      rank_vars, api_vars, rate_vars, monitor_vars>>

(***************************************************************************)
(* Bounds of the model.                                                    *)
(***************************************************************************)
\* calls of find_relevant_verses in one session
MaxCalls == 2
\* tokens in a text handed directly to calculate_similarity
MaxTextLen == 2
\* entries of a sorted list handed directly to the selection
MaxRanked == 4
\* chapters the entries of such a list are drawn from
MaxChapter == 3
\* usage count of a verse when the scoring and sort run on their own
MaxUsage == 2
\* script runs of one session that may call handle_user_input
MaxRuns == 2
\* max_requests and time_window (seconds) of the RateLimiter under check;
\* rate_limiter is built with 60 and 60 (production_utils.py, lines 53, 75)
MaxRequests == 2
TimeWindow == 2
\* the clock runs from 0 to MaxTime seconds
MaxTime == 3
\* questions answered in a session whose script runs come one after the other
MaxAnswered == 52
\* time.time() when the monitor is built, and the clock steps that follow
ClockStart == 1700000000
MaxTicks == 3

(***************************************************************************)
(* Exact rationals.                                                        *)
(***************************************************************************)
Q(n, d) == [n |-> n, d |-> d]

RECURSIVE GCD(_, _)
GCD(a, b) == IF b = 0 THEN a ELSE GCD(b, a % b)

Reduce(q) == IF q.n = 0 THEN Q(0, 1)
             ELSE LET g == GCD(q.n, q.d) IN Q(q.n \div g, q.d \div g)

QMul(a, b) == Reduce(Q(a.n * b.n, a.d * b.d))
QAdd(a, b) == Reduce(Q(a.n * b.d + b.n * a.d, a.d * b.d))
QLess(a, b) == a.n * b.d < b.n * a.d
QEq(a, b) == a.n * b.d = b.n * a.d
QLeq(a, b) == a.n * b.d <= b.n * a.d

Range(s) == {s[i] : i \in 1..Len(s)}
Max(a, b) == IF a >= b THEN a ELSE b

(***************************************************************************)
(* Python dict: a function whose DOMAIN is the set of keys.                *)
(***************************************************************************)
EmptyDict == << >>
Get(d, k, default) == IF k \in DOMAIN d THEN d[k] ELSE default
Put(d, k, v) == [x \in (DOMAIN d) \cup {k} |-> IF x = k THEN v ELSE d[x]]

(***************************************************************************)
(* The corpus (data/bhagavad_gita.csv is read at construction and never    *)
(* changed).  A text is the list of its whitespace-separated raw words;    *)
(* the empty list is the empty or whitespace-only string.                  *)
(***************************************************************************)
Corpus == <<
    [chapter |-> 1, verse_number |-> 1, verse_text |-> <<"The", "Duty">>],
    [chapter |-> 1, verse_number |-> 2, verse_text |-> <<"duty!", "actions">>],
    [chapter |-> 2, verse_number |-> 1, verse_text |-> <<"karma">>],
    [chapter |-> 3, verse_number |-> 1, verse_text |-> <<"peace", "xyzzy">>] >>

NumVerses == Len(Corpus)
Chapters == {Corpus[i].chapter : i \in 1..NumVerses}

\* f"{chapter}.{verse_number}": the two integers, kept apart by the dot
VerseId(chapter, verse_number) == <<chapter, verse_number>>
VerseIdOf(idx) == VerseId(Corpus[idx].chapter, Corpus[idx].verse_number)
VerseIds == {VerseIdOf(i) : i \in 1..NumVerses}

\* the questions a caller may pass
Questions == { << >>, <<"The", "42">>, <<"Duty", "actions">>, <<"karma", "peace">> }

\* the values of top_n a caller may pass; DefaultTopN is the default
DefaultTopN == 5
TopNs == {0, 1, 2, 3, DefaultTopN}

\* random.uniform(0.95, 1.05), in hundredths: the two ends of the range
JitterLow == 95
JitterHigh == 105
Jitters == {JitterLow, JitterHigh}

(***************************************************************************)
(* utils/text_processor.py                                                 *)
(***************************************************************************)
\* str.lower() on one word
Lower(w) == CASE w = "Duty" -> "duty"
              [] w = "The" -> "the"
              [] OTHER -> w

\* re.sub(r'[^a-zA-Z\s]', '', text) on one word; a word of digits vanishes
StripNonAlpha(w) == CASE w = "duty!" -> "duty"
                      [] w = "42" -> ""
                      [] OTHER -> w

\* stopwords.words('english')
StopWords == {"the"}

\* WordNetLemmatizer().lemmatize(token, get_wordnet_pos(token))
Lemmatize(w) == CASE w = "actions" -> "action"
                  [] OTHER -> w

\* lines 38-41 followed by the split into words: lower(), the regex, and
\* the words that are left
RECURSIVE CleanWords(_)
CleanWords(text) ==
    IF text = << >> THEN << >>
    ELSE LET w == StripNonAlpha(Lower(Head(text)))
         IN  (IF w = "" THEN << >> ELSE <<w>>) \o CleanWords(Tail(text))

\* lines 49-50
RECURSIVE RemoveStopWords(_)
RemoveStopWords(tokens) ==
    IF tokens = << >> THEN << >>
    ELSE (IF Head(tokens) \in StopWords THEN << >> ELSE <<Head(tokens)>>)
         \o RemoveStopWords(Tail(tokens))

\* lines 56-57
RECURSIVE LemmatizeAll(_)
LemmatizeAll(tokens) ==
    IF tokens = << >> THEN << >>
    ELSE <<Lemmatize(Head(tokens))>> \o LemmatizeAll(Tail(tokens))

\* preprocess_text: the token list whose ' '.join is returned.  Without the
\* NLTK data word_tokenize raises and the plain split is the fallback.
PreprocessText(text, ok) ==
    IF ok THEN LemmatizeAll(RemoveStopWords(CleanWords(text)))
    ELSE CleanWords(text)

\* wordnet.synsets(word) is non-empty
WordNetKnown == {"duty", "action", "karma", "peace"}

\* any(s1.path_similarity(s2) > 0.5 ...): a word with synsets is related to
\* itself (path_similarity of a synset with itself is 1)
WordNetRelated == {<<w, w>> : w \in WordNetKnown}
                  \cup {<<"action", "karma">>, <<"karma", "action">>}

\* lines 78-80
JaccardSim(set1, set2) ==
    LET intersection == Cardinality(set1 \cap set2)
        union == Cardinality(set1 \cup set2)
    IN  IF union # 0 THEN Q(intersection, union) ELSE Q(0, 1)

\* lines 86-88: the lemmatisation of the words raises LookupError when the
\* NLTK data is missing and there is a word to lemmatise
SemanticFails(set1, set2, ok) == ~ok /\ (set1 # {} \/ set2 # {})

\* lines 91-105: one match per related pair (word1, word2)
SemanticMatches(set1, set2, known, related) ==
    Cardinality({p \in set1 \X set2 :
                    p[1] \in known /\ p[2] \in known /\ p \in related})

\* line 107, and line 83 when the step failed
SemanticSim(set1, set2, known, related, ok) ==
    IF SemanticFails(set1, set2, ok) THEN Q(0, 1)
    ELSE IF set1 # {} /\ set2 # {}
         THEN Q(SemanticMatches(set1, set2, known, related),
                Max(Cardinality(set1), Cardinality(set2)))
         ELSE Q(0, 1)

\* line 113
CombineSim(jaccard_sim, semantic_sim) ==
    QAdd(QMul(Q(6, 10), jaccard_sim), QMul(Q(4, 10), semantic_sim))

\* calculate_similarity(text1, text2): the value returned and the number of
\* monitor.log_error events.  The texts are strings, so the outer handler
\* (lines 126-128) has nothing to catch: monitor.log_performance_metric
\* serialises plain numbers and does not raise.
CalculateSimilarity(text1, text2, known, related, ok) ==
    LET set1 == Range(text1)
        set2 == Range(text2)
    IN  [value |-> CombineSim(JaccardSim(set1, set2),
                              SemanticSim(set1, set2, known, related, ok)),
         errors |-> IF SemanticFails(set1, set2, ok) THEN 1 ELSE 0]

(***************************************************************************)
(* gita_processor.py                                                       *)
(***************************************************************************)
\* mutant of PenaltyFactor: the usage penalty of lines 66-67 left out
PenaltyFactor_NoUsagePenalty(vu, lv, verse_id) ==
    IF verse_id \in lv THEN Q(1, 2) ELSE Q(1, 1)

\* mutant of PenaltyFactor: the last-response penalty of lines 70-71 left out
PenaltyFactor_NoLastPenalty(vu, lv, verse_id) == Q(5, 5 + Get(vu, verse_id, 0))

\* lines 66-71: 1 / (1 + 0.2 * usage_count), halved for a verse of the last response
PenaltyFactor(vu, lv, verse_id) ==
    LET usage_count == Get(vu, verse_id, 0)
        base_penalty == Q(5, 5 + usage_count)
    IN  IF verse_id \in lv THEN QMul(base_penalty, Q(1, 2)) ELSE base_penalty

\* lines 74-75: 1 / (1 + 0.1 * chapter_usage)
ChapterBoost(cu, chapter) == Q(10, 10 + Get(cu, chapter, 0))

\* mutant of CalculateVerseScore: the random factor three times as far from 1
CalculateVerseScore_WideJitter(similarity, verse_id, chapter, vu, lv, cu, randomization) ==
    QMul(QMul(QMul(similarity, PenaltyFactor(vu, lv, verse_id)),
              Q(10, 10 + Get(cu, chapter, 0))),
         Q(3 * randomization - 200, 100))

\* calculate_verse_score, line 80; randomization is in hundredths
CalculateVerseScore(similarity, verse_id, chapter, vu, lv, cu, randomization) ==
    QMul(QMul(QMul(similarity, PenaltyFactor(vu, lv, verse_id)),
              ChapterBoost(cu, chapter)),
         Q(randomization, 100))

\* lines 102-115: the entry of verse idx
VerseEntry(processed_question, pv, vu, lv, cu, jit, ok, idx) ==
    [index |-> idx,
     score |-> CalculateVerseScore(
                   CalculateSimilarity(processed_question, pv[idx],
                                       WordNetKnown, WordNetRelated, ok).value,
                   VerseIdOf(idx), Corpus[idx].chapter, vu, lv, cu, jit[idx]),
     chapter |-> Corpus[idx].chapter,
     verse_id |-> VerseIdOf(idx)]

\* lines 100-115: one entry per verse, in corpus order (the first upto verses)
RECURSIVE VerseScores(_, _, _, _, _, _, _, _)
VerseScores(processed_question, pv, vu, lv, cu, jit, ok, upto) ==
    IF upto = 0 THEN << >>
    ELSE Append(VerseScores(processed_question, pv, vu, lv, cu, jit, ok, upto - 1),
                VerseEntry(processed_question, pv, vu, lv, cu, jit, ok, upto))

\* mutant of SortPosition: entries of equal score in reverse corpus order
SortPosition_TiesReversed(scores, i) ==
    1 + Cardinality({j \in 1..Len(scores) :
                        \/ QLess(scores[i].score, scores[j].score)
                        \/ (QEq(scores[i].score, scores[j].score) /\ j > i)})

\* line 118: list.sort(key=score, reverse=True) is stable, so entries of
\* equal score keep their corpus order
SortPosition(scores, i) ==
    1 + Cardinality({j \in 1..Len(scores) :
                        \/ QLess(scores[i].score, scores[j].score)
                        \/ (QEq(scores[i].score, scores[j].score) /\ j < i)})

RECURSIVE SortedUpTo(_, _)
SortedUpTo(scores, k) ==
    IF k = 0 THEN << >>
    ELSE Append(SortedUpTo(scores, k - 1),
                scores[CHOOSE i \in 1..Len(scores) : SortPosition(scores, i) = k])

SortByScore(scores) == SortedUpTo(scores, Len(scores))

\* list.remove(verse): the entries are distinct, so this drops the one entry
Remove(s, v) == SelectSeq(s, LAMBDA x : x # v)

\* mutant of NewChapter: the chapter test of line 128 dropped
NewChapter_AnyChapter(verse, selected_chapters) == TRUE

\* line 128
NewChapter(verse, selected_chapters) == verse.chapter \notin selected_chapters

\* lines 127-133: the for loop over a copy of remaining_verses
RECURSIVE ChapterPass(_, _, _, _, _)
ChapterPass(copy, selected_verses, selected_chapters, remaining_verses, n) ==
    IF copy = << >>
    THEN [selected_verses |-> selected_verses,
          selected_chapters |-> selected_chapters,
          remaining_verses |-> remaining_verses]
    ELSE LET verse == Head(copy) IN
         IF NewChapter(verse, selected_chapters)
         THEN LET sel == Append(selected_verses, verse)
                  chs == selected_chapters \cup {verse.chapter}
                  rem == Remove(remaining_verses, verse)
              IN  IF Len(sel) >= n
                  THEN [selected_verses |-> sel, selected_chapters |-> chs,
                        remaining_verses |-> rem]
                  ELSE ChapterPass(Tail(copy), sel, chs, rem, n)
         ELSE ChapterPass(Tail(copy), selected_verses, selected_chapters,
                          remaining_verses, n)

\* mutant of FillOne: the verse appended is not removed from remaining_verses
FillOne_NotRemoved(st, n) ==
    IF Len(st.selected_verses) < n /\ st.remaining_verses # << >>
    THEN [selected_verses |-> Append(st.selected_verses, Head(st.remaining_verses)),
          selected_chapters |-> st.selected_chapters,
          remaining_verses |-> st.remaining_verses]
    ELSE st

\* lines 136-139: one more verse, whatever its chapter
FillOne(st, n) ==
    IF Len(st.selected_verses) < n /\ st.remaining_verses # << >>
    THEN [selected_verses |-> Append(st.selected_verses, Head(st.remaining_verses)),
          selected_chapters |-> st.selected_chapters,
          remaining_verses |-> Tail(st.remaining_verses)]
    ELSE st

\* lines 126-139: the while loop
RECURSIVE SelectLoop(_, _)
SelectLoop(st, n) ==
    IF Len(st.selected_verses) < n /\ st.remaining_verses # << >>
    THEN SelectLoop(FillOne(ChapterPass(st.remaining_verses, st.selected_verses,
                                        st.selected_chapters, st.remaining_verses, n),
                            n),
                    n)
    ELSE st

\* mutant of SelectDiverse: the first n entries of the sorted list
SelectDiverse_PlainTopN(sorted_scores, n) ==
    LET k == IF n <= 0 THEN 0 ELSE IF n <= Len(sorted_scores) THEN n ELSE Len(sorted_scores)
    IN  [selected_verses |-> SubSeq(sorted_scores, 1, k),
         selected_chapters |-> {sorted_scores[i].chapter : i \in 1..k},
         remaining_verses |-> SubSeq(sorted_scores, k + 1, Len(sorted_scores))]

\* lines 121-140
SelectDiverse(sorted_scores, n) ==
    SelectLoop([selected_verses |-> << >>, selected_chapters |-> {},
                remaining_verses |-> sorted_scores], n)

\* mutant of IncrementVerse: the count set to 1 instead of incremented
IncrementVerse_SetOne(vu, verse_id) == Put(vu, verse_id, 1)

\* line 39
IncrementVerse(vu, verse_id) == Put(vu, verse_id, Get(vu, verse_id, 0) + 1)

\* mutant of IncrementChapter: the chapter count left as it is
IncrementChapter_Skipped(cu, chapter) == cu

\* mutant of IncrementChapter: the count set to 1 instead of incremented
IncrementChapter_SetOne(cu, chapter) == Put(cu, chapter, 1)

\* line 42
IncrementChapter(cu, chapter) == Put(cu, chapter, Get(cu, chapter, 0) + 1)

\* update_usage_stats, lines 34-42, over the rows of selected_df in order
RECURSIVE UpdateUsage(_, _)
UpdateUsage(usage, rows) ==
    IF rows = << >> THEN usage
    ELSE LET verse_id == VerseIdOf(Head(rows))
             chapter == Corpus[Head(rows)].chapter
         IN  UpdateUsage(
                [verse_usage |-> IncrementVerse(usage.verse_usage, verse_id),
                 chapter_usage |-> IncrementChapter(usage.chapter_usage, chapter)],
                Tail(rows))

\* mutant of LastVersesOf: the new ids added to the old set instead of replacing it
LastVersesOf_Union(rows) == last_verses \cup {VerseIdOf(rows[i]) : i \in 1..Len(rows)}

\* lines 149-152
LastVersesOf(rows) == {VerseIdOf(rows[i]) : i \in 1..Len(rows)}

\* line 158: sum(...) / len(selected_verses) raises ZeroDivisionError
MetricsFail(selected_verses) == Len(selected_verses) = 0

NoErrors == [semantic_similarity |-> 0, find_relevant_verses |-> 0]

\* mutant of Escapes: the metrics of lines 155-160 computed outside the try block
Escapes_MetricsOutsideTry(failed) == failed

\* lines 96 and 174: the whole body is inside try, and except Exception
\* catches every failure of it; monitor.log_error and the empty DataFrame of
\* the handler do not raise, so nothing escapes
Escapes(failed) == FALSE

\* mutant of MonitorRaises: a record that cannot be written raises in the caller
MonitorRaises_Unhandled(down) == down

\* monitor.log_performance_metric and monitor.log_error (monitoring.py, lines
\* 98-111 and 139-153) serialise strings and numbers with json.dumps and pass
\* the line to self.logger; a handler that cannot write its record reports
\* the failure itself (logging.Handler.handleError) and the call returns, so
\* no monitor call of a retrieval raises, whether the sink is up or down
MonitorRaises(down) == FALSE

\* lines 174-176: one error event, and the empty DataFrame
FailureResult == [returned |-> << >>, events |-> 1]

\* monitor.log_error events of the similarity calls of one retrieval
RECURSIVE SemanticErrors(_, _, _, _)
SemanticErrors(processed_question, pv, ok, idx) ==
    IF idx = 0 THEN 0
    ELSE CalculateSimilarity(processed_question, pv[idx],
                             WordNetKnown, WordNetRelated, ok).errors
         + SemanticErrors(processed_question, pv, ok, idx - 1)

\* __init__, line 12: the first upto verses, normalised
RECURSIVE ProcessedVerses(_, _)
ProcessedVerses(ok, upto) ==
    IF upto = 0 THEN << >>
    ELSE Append(ProcessedVerses(ok, upto - 1), PreprocessText(Corpus[upto].verse_text, ok))

(***************************************************************************)
(* State after construction (GitaProcessor.__init__ on a fresh session).   *)
(***************************************************************************)
RetrievalInit ==
    /\ nltk_missing \in BOOLEAN
    /\ processed_verses = ProcessedVerses(~nltk_missing, NumVerses)
    /\ verse_usage = EmptyDict
    /\ chapter_usage = EmptyDict
    /\ last_verses = {}
    /\ calls = 0
    /\ question = << >>
    /\ top_n = DefaultTopN
    /\ returned = << >>
    /\ raised = FALSE
    /\ outcome = "none"
    /\ error_log = NoErrors
    /\ pre_verse_usage = EmptyDict
    /\ pre_chapter_usage = EmptyDict
    /\ pre_last_verses = {}
    /\ nominal_returned = << >>

\* the log file and the console of monitoring.py, lines 20-26, can be written
SinkUp == sink_down = FALSE

SimIdle ==
    /\ sim_text1 = << >>
    /\ sim_text2 = << >>
    /\ sim_known = {}
    /\ sim_related = {}
    /\ sim_missing = FALSE
    /\ sim_done = FALSE
    /\ sim_result = Q(0, 1)
    /\ sim_errors = 0

ScoreIdle ==
    /\ sc_x = 1
    /\ sc_y = 1
    /\ sc_base = Q(0, 1)
    /\ sc_jitter = 100
    /\ sc_done = FALSE
    /\ sc_fx = Q(0, 1)
    /\ sc_fy = Q(0, 1)

SelectIdle ==
    /\ sel_ranked = << >>
    /\ sel_n = DefaultTopN
    /\ sel_done = FALSE
    /\ sel_result = << >>

RankIdle ==
    /\ rk_sims = << >>
    /\ rk_vu = EmptyDict
    /\ rk_cu = EmptyDict
    /\ rk_lv = {}
    /\ rk_jit = << >>
    /\ rk_done = FALSE
    /\ rk_sorted = << >>

\* no call of generate_response yet
NoAnswer == [short_answer |-> "", detailed_explanation |-> [prefix |-> "", body |-> ""]]

ApiIdle ==
    /\ api_outcomes = << >>
    /\ api_done = FALSE
    /\ gen_answer = NoAnswer
    /\ gen_raised = FALSE

\* the sessions of the application; the session id is the client id of the
\* rate limiter (main.py, line 75)
Sessions == {"s1", "s2"}

\* rate_limiter = RateLimiter() (production_utils.py, lines 53-56 and 75)
\* before its first call
RateIdle ==
    /\ rl_now = 0
    /\ rl_requests = EmptyDict
    /\ rl_admitted = [c \in Sessions |-> << >>]
    /\ rl_last = [client |-> "none", time |-> 0, allowed |-> FALSE]

\* the script runs that may call handle_user_input for one session
Runs == 1..MaxRuns

\* initialize_session_state (main.py, lines 13-26) and GitaProcessor.__init__
\* for every session, no run of handle_user_input under way
HandlerIdle ==
    /\ hd_pc = [s \in Sessions |-> [r \in Runs |-> "idle"]]
    /\ hd_question = [s \in Sessions |-> [r \in Runs |-> "none"]]
    /\ hd_processing = [s \in Sessions |-> FALSE]
    /\ hd_last = [s \in Sessions |-> "none"]
    /\ hd_usage = [s \in Sessions |-> 0]
    /\ hd_read = [s \in Sessions |-> [r \in Runs |-> 0]]
    /\ hd_retrievals = [s \in Sessions |-> 0]
    /\ hd_conversation = [s \in Sessions |-> << >>]

\* monitoring.py, line 113: the default of timeout, with which main() calls
\* cleanup_inactive_sessions (main.py, line 209)
DefaultTimeout == 3600

\* monitor = EnhancedChatbotMonitor() (monitoring.py, lines 31-40 and 157)
MonitorIdle ==
    /\ mon_now = ClockStart
    /\ mon_ticks = 0
    /\ mon_metrics = [last_update_timestamp |-> ClockStart]
    /\ mon_active = {}
    /\ mon_interaction = [s \in Sessions |-> [logged |-> FALSE, at |-> 0]]
    /\ mon_removed = {}
    /\ mon_kept = {}

Init ==
    /\ RetrievalInit /\ SinkUp /\ SimIdle /\ ScoreIdle /\ SelectIdle
    /\ RankIdle /\ ApiIdle /\ RateIdle /\ HandlerIdle /\ MonitorIdle

(***************************************************************************)
(* find_relevant_verses(q, n), with jit[idx] the random factor drawn for   *)
(* verse idx.                                                              *)
(***************************************************************************)
\* lines 142-143: the corpus positions of the selected entries
RECURSIVE SelectedIndices(_)
SelectedIndices(selected_verses) ==
    IF selected_verses = << >> THEN << >>
    ELSE <<Head(selected_verses).index>> \o SelectedIndices(Tail(selected_verses))

FindRelevantVerses(q, n, jit) ==
    /\ calls < MaxCalls
    /\ \E processed_question \in {PreprocessText(q, ~nltk_missing)} :
       \E scores \in {VerseScores(processed_question, processed_verses, verse_usage,
                                  last_verses, chapter_usage, jit, ~nltk_missing, NumVerses)} :
       \E verse_scores \in {SortByScore(scores)} :
       \E sel \in {SelectDiverse(verse_scores, n)} :
       \E selected_indices \in {SelectedIndices(sel.selected_verses)} :
       \E usage \in {UpdateUsage([verse_usage |-> verse_usage,
                                  chapter_usage |-> chapter_usage], selected_indices)} :
       \E failed \in {MetricsFail(sel.selected_verses)} :
           /\ nominal_returned' = IF failed THEN FailureResult.returned ELSE selected_indices
           /\ IF MonitorRaises(sink_down)
              THEN \* the first monitor call is the one of calculate_similarity on
                   \* the first verse (text_processor.py, line 116, or 110): it
                   \* raises, the monitor.log_error of its handler (line 127)
                   \* raises, and so does the one of line 175: the exception
                   \* leaves find_relevant_verses before any verse is selected
                   /\ UNCHANGED <<verse_usage, chapter_usage, last_verses>>
                   /\ returned' = << >>
                   /\ outcome' = "raised"
                   /\ raised' = TRUE
                   /\ error_log' = NoErrors
              ELSE /\ verse_usage' = usage.verse_usage
                   /\ chapter_usage' = usage.chapter_usage
                   /\ last_verses' = LastVersesOf(selected_indices)
                   /\ returned' = IF failed THEN FailureResult.returned ELSE selected_indices
                   /\ outcome' = IF failed THEN "failed" ELSE "ok"
                   /\ raised' = Escapes(failed)
                   /\ error_log' = [semantic_similarity |->
                                        SemanticErrors(processed_question, processed_verses,
                                                       ~nltk_missing, NumVerses),
                                    find_relevant_verses |->
                                        IF failed THEN FailureResult.events ELSE 0]
    /\ calls' = calls + 1
    /\ question' = q
    /\ top_n' = n
    /\ pre_verse_usage' = verse_usage
    /\ pre_chapter_usage' = chapter_usage
    /\ pre_last_verses' = last_verses
    /\ UNCHANGED <<nltk_missing, processed_verses, sink_down, sim_vars, score_vars, select_vars,
                   rank_vars, api_vars, rate_vars, handler_vars, monitor_vars>>

Retrieve ==
    \E q \in Questions, n \in TopNs, jit \in [1..NumVerses -> Jitters] :
        FindRelevantVerses(q, n, jit)

Next == Retrieve

Spec == Init /\ [][Next]_vars

(***************************************************************************)
(* The same session with the observability sink up or down: the log file   *)
(* or the console of the monitor cannot be written while the retrievals    *)
(* run.                                                                    *)
(***************************************************************************)
SinkInit ==
    /\ RetrievalInit /\ nltk_missing = FALSE
    /\ sink_down \in BOOLEAN
    /\ SimIdle
    /\ ScoreIdle
    /\ SelectIdle
    /\ RankIdle /\ ApiIdle /\ RateIdle /\ HandlerIdle /\ MonitorIdle

SinkSpec == SinkInit /\ [][Next]_vars

(***************************************************************************)
(* calculate_similarity as a function of its two texts and of the          *)
(* semantic resource.  A token has synsets or not (sim_known); two tokens  *)
(* with synsets are related or not (sim_related); the relation is          *)
(* symmetric and holds between a token with synsets and itself.            *)
(***************************************************************************)
SimTokens == {"car", "auto", "wheel"}

RECURSIVE TextsUpTo(_)
TextsUpTo(len) ==
    IF len = 0 THEN {<< >>}
    ELSE TextsUpTo(len - 1)
         \cup {Append(t, w) : t \in {u \in TextsUpTo(len - 1) : Len(u) = len - 1},
                              w \in SimTokens}

SimTexts == TextsUpTo(MaxTextLen)

Relations(known) ==
    {{<<w, w>> : w \in known} \cup {p \in known \X known : {p[1], p[2]} \in chosen}
        : chosen \in SUBSET {{q[1], q[2]} : q \in {r \in known \X known : r[1] # r[2]}}}

SimInit ==
    /\ RetrievalInit /\ nltk_missing = FALSE
    /\ SinkUp
    /\ ScoreIdle
    /\ SelectIdle
    /\ RankIdle /\ ApiIdle /\ RateIdle /\ HandlerIdle /\ MonitorIdle
    /\ sim_text1 \in SimTexts
    /\ sim_text2 \in SimTexts
    /\ sim_known \in SUBSET SimTokens
    /\ sim_related \in Relations(sim_known)
    /\ sim_missing \in BOOLEAN
    /\ sim_done = FALSE
    /\ sim_result = Q(0, 1)
    /\ sim_errors = 0

Similarity ==
    /\ ~sim_done
    /\ \E r \in {CalculateSimilarity(sim_text1, sim_text2, sim_known, sim_related, ~sim_missing)} :
           /\ sim_result' = r.value
           /\ sim_errors' = r.errors
    /\ sim_done' = TRUE
    /\ UNCHANGED <<sim_text1, sim_text2, sim_known, sim_related, sim_missing,
                   retrieval_vars, score_vars, select_vars,
                   rank_vars, api_vars, rate_vars, handler_vars, monitor_vars>>

SimNext == Similarity

SimSpec == SimInit /\ [][SimNext]_vars

(***************************************************************************)
(* calculate_verse_score on two verses of the corpus with the same base    *)
(* similarity and the same random factor, in a UsageState the session has  *)
(* reached.                                                                *)
(***************************************************************************)
ScoreBases == {Q(0, 1), Q(3, 5)}

ScorePair ==
    /\ ~sc_done
    /\ \E x \in 1..NumVerses, y \in 1..NumVerses, base \in ScoreBases, j \in Jitters :
           /\ x # y
           /\ sc_x' = x
           /\ sc_y' = y
           /\ sc_base' = base
           /\ sc_jitter' = j
           /\ sc_fx' = CalculateVerseScore(base, VerseIdOf(x), Corpus[x].chapter,
                                           verse_usage, last_verses, chapter_usage, j)
           /\ sc_fy' = CalculateVerseScore(base, VerseIdOf(y), Corpus[y].chapter,
                                           verse_usage, last_verses, chapter_usage, j)
    /\ sc_done' = TRUE
    /\ UNCHANGED <<retrieval_vars, sim_vars, select_vars,
                   rank_vars, api_vars, rate_vars, handler_vars, monitor_vars>>

RetrieveBeforeScoring == ~sc_done /\ Retrieve

ScoreNext == RetrieveBeforeScoring \/ ScorePair

ScoreSpec == Init /\ [][ScoreNext]_vars

(***************************************************************************)
(* The selection of lines 120-140 as a function of the sorted list and of  *)
(* top_n.  The list holds one entry per verse of a corpus; the entry at    *)
(* position k is verse k of its chapter's order of arrival, and the scores *)
(* fall with the position, as after the sort of line 118.                  *)
(***************************************************************************)
RECURSIVE RankedFrom(_, _)
RankedFrom(chapters, k) ==
    IF k = 0 THEN << >>
    ELSE Append(RankedFrom(chapters, k - 1),
                [index |-> k,
                 score |-> Q(Len(chapters) - k + 1, Len(chapters)),
                 chapter |-> chapters[k],
                 verse_id |-> VerseId(chapters[k], k)])

RECURSIVE ChapterListsUpTo(_)
ChapterListsUpTo(len) ==
    IF len = 0 THEN {<< >>}
    ELSE ChapterListsUpTo(len - 1)
         \cup {Append(t, c) : t \in {u \in ChapterListsUpTo(len - 1) : Len(u) = len - 1},
                              c \in 1..MaxChapter}

\* lines 102-115 for verse idx of a corpus given by the base similarities
\* of its verses to the question and by their chapters (verse idx is verse
\* number idx of its chapter)
CandidateEntry(sims, chapters, vu, lv, cu, jit, idx) ==
    [index |-> idx,
     score |-> CalculateVerseScore(sims[idx], VerseId(chapters[idx], idx), chapters[idx],
                                   vu, lv, cu, jit[idx]),
     chapter |-> chapters[idx],
     verse_id |-> VerseId(chapters[idx], idx)]

\* lines 100-115: one entry per verse, in corpus order (the first upto verses)
RECURSIVE CandidateScores(_, _, _, _, _, _, _)
CandidateScores(sims, chapters, vu, lv, cu, jit, upto) ==
    IF upto = 0 THEN << >>
    ELSE Append(CandidateScores(sims, chapters, vu, lv, cu, jit, upto - 1),
                CandidateEntry(sims, chapters, vu, lv, cu, jit, upto))

\* the three-verse corpus A, B, C: A and B of chapter 1, C of chapter 2, and
\* a question of similarity 0.9 to A, 0.1 to B and 0.8 to C
ScenarioChapters == <<1, 1, 2>>
ScenarioSims == <<Q(9, 10), Q(1, 10), Q(4, 5)>>
ScenarioSize == Len(ScenarioChapters)

\* lines 100-118 on that corpus in a fresh session, for every draw of the
\* random factors
ScenarioRankings ==
    {SortByScore(CandidateScores(ScenarioSims, ScenarioChapters, EmptyDict, {}, EmptyDict,
                                 jit, ScenarioSize)) : jit \in [1..ScenarioSize -> Jitters]}

SelectInit ==
    /\ RetrievalInit /\ nltk_missing = FALSE
    /\ SinkUp
    /\ SimIdle
    /\ ScoreIdle
    /\ RankIdle /\ ApiIdle /\ RateIdle /\ HandlerIdle /\ MonitorIdle
    /\ \/ \E chapters \in ChapterListsUpTo(MaxRanked) :
             sel_ranked = RankedFrom(chapters, Len(chapters))
       \/ sel_ranked \in ScenarioRankings
    /\ sel_n \in 0..(MaxRanked + 1)
    /\ sel_done = FALSE
    /\ sel_result = << >>

Select ==
    /\ ~sel_done
    /\ sel_result' = SelectDiverse(sel_ranked, sel_n).selected_verses
    /\ sel_done' = TRUE
    /\ UNCHANGED <<sel_ranked, sel_n, retrieval_vars, sim_vars, score_vars,
                   rank_vars, api_vars, rate_vars, handler_vars, monitor_vars>>

SelectNext == Select

SelectSpec == SelectInit /\ [][SelectNext]_vars

(***************************************************************************)
(* The scoring and sort of lines 100-118 on the corpus A, B, C, as a       *)
(* function of the similarities, of the UsageState and of the random       *)
(* factors.  A UsageState of the session: a verse has been selected 0 to   *)
(* MaxUsage times, update_usage_stats has counted each selection for the   *)
(* verse and for its chapter (lines 39 and 42), and last_verses holds      *)
(* verses that have been selected.                                         *)
(***************************************************************************)
RankSims == {Q(0, 1)} \cup Range(ScenarioSims)

ScenarioId(idx) == VerseId(ScenarioChapters[idx], idx)

\* the dict verse_usage when verse idx has been selected used[idx] times
VerseUsageFrom(used) ==
    [v \in {ScenarioId(i) : i \in {k \in 1..ScenarioSize : used[k] > 0}} |-> used[v[2]]]

RECURSIVE SumOver(_, _)
SumOver(used, idxs) ==
    IF idxs = {} THEN 0
    ELSE LET i == CHOOSE k \in idxs : TRUE IN used[i] + SumOver(used, idxs \ {i})

ChapterSelections(used, c) ==
    SumOver(used, {i \in 1..ScenarioSize : ScenarioChapters[i] = c})

\* the dict chapter_usage of the same session
ChapterUsageFrom(used) ==
    [c \in {ch \in Range(ScenarioChapters) : ChapterSelections(used, ch) > 0}
        |-> ChapterSelections(used, c)]

RankInit ==
    /\ RetrievalInit /\ nltk_missing = FALSE
    /\ SinkUp
    /\ SimIdle /\ ScoreIdle /\ SelectIdle
    /\ ApiIdle /\ RateIdle /\ HandlerIdle /\ MonitorIdle
    /\ rk_sims \in [1..ScenarioSize -> RankSims]
    /\ \E used \in [1..ScenarioSize -> 0..MaxUsage] :
           /\ rk_vu = VerseUsageFrom(used)
           /\ rk_cu = ChapterUsageFrom(used)
    /\ rk_lv \in SUBSET (DOMAIN rk_vu)
    /\ rk_jit \in [1..ScenarioSize -> Jitters]
    /\ rk_done = FALSE
    /\ rk_sorted = << >>

Rank ==
    /\ ~rk_done
    /\ \E scores \in {CandidateScores(rk_sims, ScenarioChapters, rk_vu, rk_lv, rk_cu,
                                       rk_jit, ScenarioSize)} :
           rk_sorted' = SortByScore(scores)
    /\ rk_done' = TRUE
    /\ UNCHANGED <<rk_sims, rk_vu, rk_cu, rk_lv, rk_jit,
                   retrieval_vars, sim_vars, score_vars, select_vars,
                   api_vars, rate_vars, handler_vars, monitor_vars>>

RankNext == Rank

RankSpec == RankInit /\ [][RankNext]_vars

(***************************************************************************)
(* response_generator.py: generate_response and the retried API call.      *)
(* An attempt of the call ends in a response with choices ("ok"), in an    *)
(* empty response (the ValueError of line 131) or in one of the three      *)
(* errors of the openai client; str(error) is the name of the error here.  *)
(***************************************************************************)
\* stop_after_attempt(3), line 105
MaxAttempts == 3

ApiErrors == {"RateLimitError", "APIConnectionError", "APIError"}
AttemptOutcomes == {"ok", "ValueError"} \cup ApiErrors

\* lines 258, 265 and 266
ContemplateMessage ==
    "Forgive me, dear one. I need a moment to contemplate. Please try again shortly."
UnableMessage ==
    "Forgive me, dear one, but I am unable to provide guidance at this moment."
\* a text made of a fixed prefix and of str(e)
Text(prefix, body) == [prefix |-> prefix, body |-> body]
TechnicalError(body) == Text("Technical error: ", body)

\* line 107: when the last attempt has failed, the retry decorator calls
\* retry_error_callback and returns its value, None, instead of raising
RetryErrorCallback(last_outcome) == [returned |-> "None", raised |-> "none"]

\* _make_api_call as its caller sees it (lines 104-143): the dict of lines
\* 133-136 when the last attempt succeeded, else what line 107 gives
MakeApiCall(outcomes) ==
    LET last_outcome == outcomes[Len(outcomes)]
    IN  IF last_outcome = "ok" THEN [returned |-> "dict", raised |-> "none"]
        ELSE RetryErrorCallback(last_outcome)

\* lines 247-267 for the result of _make_api_call
AnswerFor(call) ==
    IF call.raised \in ApiErrors
    THEN \* lines 255-260
         [short_answer |-> ContemplateMessage, detailed_explanation |-> Text("", call.raised)]
    ELSE IF call.raised # "none"
    THEN \* lines 262-267
         [short_answer |-> UnableMessage, detailed_explanation |-> TechnicalError(call.raised)]
    ELSE IF call.returned = "None"
    THEN \* line 249: None["content"] raises TypeError; lines 262-267
         [short_answer |-> UnableMessage,
          detailed_explanation |-> TechnicalError("'NoneType' object is not subscriptable")]
    ELSE \* lines 249-253: the parsed response
         [short_answer |-> "parsed short answer",
          detailed_explanation |-> Text("", "parsed detailed explanation")]

\* one attempt of line 116, started by the call of line 248 or by the retry
\* of line 104 after a failed attempt
ApiAttempt ==
    /\ ~api_done
    /\ Len(api_outcomes) < MaxAttempts
    /\ api_outcomes # << >> => api_outcomes[Len(api_outcomes)] # "ok"
    /\ \E o \in AttemptOutcomes : api_outcomes' = Append(api_outcomes, o)
    /\ UNCHANGED <<api_done, gen_answer, gen_raised, retrieval_vars, sim_vars, score_vars,
                   select_vars, rank_vars, rate_vars, handler_vars, monitor_vars>>

\* the retry loop has ended (success, or the last attempt allowed has failed)
\* and generate_response returns
GenerateReturn ==
    /\ ~api_done
    /\ api_outcomes # << >>
    /\ api_outcomes[Len(api_outcomes)] = "ok" \/ Len(api_outcomes) = MaxAttempts
    /\ gen_answer' = AnswerFor(MakeApiCall(api_outcomes))
    /\ gen_raised' = FALSE
    /\ api_done' = TRUE
    /\ UNCHANGED <<api_outcomes, retrieval_vars, sim_vars, score_vars,
                   select_vars, rank_vars, rate_vars, handler_vars, monitor_vars>>

\* lines 213-217 and 262-267: no client, or no question: no attempt is made
GenerateWithoutCall ==
    /\ ~api_done
    /\ api_outcomes = << >>
    /\ \E text \in {"Azure OpenAI not properly initialized", "Invalid question format"} :
           gen_answer' = [short_answer |-> UnableMessage,
                          detailed_explanation |-> TechnicalError(text)]
    /\ gen_raised' = FALSE
    /\ api_done' = TRUE
    /\ UNCHANGED <<api_outcomes, retrieval_vars, sim_vars, score_vars,
                   select_vars, rank_vars, rate_vars, handler_vars, monitor_vars>>

ApiNext == ApiAttempt \/ GenerateReturn \/ GenerateWithoutCall

ApiInit ==
    /\ RetrievalInit /\ nltk_missing = FALSE
    /\ SinkUp
    /\ SimIdle /\ ScoreIdle /\ SelectIdle
    /\ RankIdle /\ ApiIdle /\ RateIdle /\ HandlerIdle /\ MonitorIdle

ApiSpec == ApiInit /\ [][ApiNext]_vars

(***************************************************************************)
(* Properties of generate_response (checked under ApiSpec).                *)
(***************************************************************************)
\* C19: generate_response makes at most 3 attempts of the API call, and when
\* every attempt has failed with RateLimitError, APIConnectionError or
\* APIError it returns, without raising, the answer whose short_answer is
\* the "moment to contemplate" message and whose detailed_explanation is the
\* text of the API error.
C19_ApiFailureGivesContemplateAnswer ==
    /\ Len(api_outcomes) <= 3
    /\ (/\ api_done
        /\ api_outcomes # << >>
        /\ \A i \in 1..Len(api_outcomes) : api_outcomes[i] \in ApiErrors)
          => /\ ~gen_raised
             /\ gen_answer.short_answer = ContemplateMessage
             /\ gen_answer.detailed_explanation = Text("", api_outcomes[Len(api_outcomes)])

\* The part of it that holds: at most 3 attempts, nothing raised, and after
\* three failed attempts the "unable to provide guidance" answer.
ApiFailureGivesUnableAnswer ==
    /\ Len(api_outcomes) <= MaxAttempts
    /\ ~gen_raised
    /\ (api_done /\ api_outcomes # << >> /\ api_outcomes[Len(api_outcomes)] # "ok")
          => /\ Len(api_outcomes) = MaxAttempts
             /\ gen_answer.short_answer = UnableMessage

(***************************************************************************)
(* production_utils.py: RateLimiter.  time.time() is read in whole seconds *)
(* and does not go backwards; any number of calls may fall in one second.  *)
(***************************************************************************)
\* mutant of Recent: a request is forgotten one second early
Recent_OneSecondEarly(reqs, current_time) ==
    SelectSeq(reqs, LAMBDA req_time : current_time - req_time < TimeWindow - 1)

\* lines 64-67: the requests of the last time_window seconds
Recent(reqs, current_time) ==
    SelectSeq(reqs, LAMBDA req_time : current_time - req_time < TimeWindow)

\* is_allowed(client_id), lines 58-73, called by handle_user_input
\* (main.py, line 75) with the session id
IsAllowed(client_id) ==
    /\ \E kept \in {Recent(Get(rl_requests, client_id, << >>), rl_now)} :
          IF Len(kept) >= MaxRequests
          THEN /\ rl_requests' = Put(rl_requests, client_id, kept)
               /\ rl_last' = [client |-> client_id, time |-> rl_now, allowed |-> FALSE]
               /\ UNCHANGED rl_admitted
          ELSE /\ rl_requests' = Put(rl_requests, client_id, Append(kept, rl_now))
               /\ rl_last' = [client |-> client_id, time |-> rl_now, allowed |-> TRUE]
               /\ rl_admitted' = [rl_admitted EXCEPT ![client_id] = Append(@, rl_now)]
    /\ UNCHANGED <<rl_now, retrieval_vars, sim_vars, score_vars, select_vars,
                   rank_vars, api_vars, handler_vars, monitor_vars>>

\* a second passes
Tick ==
    /\ rl_now < MaxTime
    /\ rl_now' = rl_now + 1
    /\ UNCHANGED <<rl_requests, rl_admitted, rl_last, retrieval_vars, sim_vars, score_vars,
                   select_vars, rank_vars, api_vars, handler_vars, monitor_vars>>

RateNext == Tick \/ \E client_id \in Sessions : IsAllowed(client_id)

RateInit ==
    /\ RetrievalInit /\ nltk_missing = FALSE
    /\ SinkUp
    /\ SimIdle /\ ScoreIdle /\ SelectIdle
    /\ RankIdle /\ ApiIdle /\ RateIdle /\ HandlerIdle /\ MonitorIdle

RateSpec == RateInit /\ [][RateNext]_vars

(***************************************************************************)
(* Properties of RateLimiter.is_allowed (checked under RateSpec).          *)
(***************************************************************************)
\* the calls of client c that returned True with a timestamp in (t - time_window, t]
AdmittedInWindow(c, t) ==
    Cardinality({i \in 1..Len(rl_admitted[c]) :
                    t - TimeWindow < rl_admitted[c][i] /\ rl_admitted[c][i] <= t})

\* self.requests[c] holds timestamps of calls that returned True only: it is
\* the end of the list of those timestamps
RecordedAreAdmitted(c) ==
    LET reqs == Get(rl_requests, c, << >>)
        n == Len(rl_admitted[c])
    IN  /\ Len(reqs) <= n
        /\ reqs = SubSeq(rl_admitted[c], n - Len(reqs) + 1, n)

\* C20: for every client and every time t, at most max_requests calls of
\* the client returned True with a timestamp in (t - time_window, t]; a call
\* that returns False is not recorded; and a call is refused only when the
\* client's own admitted calls fill the window, whatever other clients did.
C20_AtMostMaxRequestsPerWindow ==
    /\ \A c \in Sessions, t \in 0..MaxTime : AdmittedInWindow(c, t) <= MaxRequests
    /\ \A c \in Sessions : RecordedAreAdmitted(c)
    /\ (rl_last.client \in Sessions /\ ~rl_last.allowed)
          => AdmittedInWindow(rl_last.client, rl_last.time) = MaxRequests
    /\ (rl_last.client \in Sessions /\ rl_last.allowed)
          => rl_admitted[rl_last.client][Len(rl_admitted[rl_last.client])] = rl_last.time

\* C20 witness: a client whose window was full at some time has been
\* admitted again once its oldest request left the window, and is now
\* refused, while the other client has made requests of its own.
C20_Witness ==
    \E c \in Sessions, d \in Sessions :
        /\ c # d
        /\ rl_last = [client |-> c, time |-> rl_now, allowed |-> FALSE]
        /\ Len(rl_admitted[c]) > MaxRequests
        /\ Len(Get(rl_requests, c, << >>)) = MaxRequests
        /\ rl_admitted[d] # << >>

(***************************************************************************)
(* monitoring.py: the active sessions of EnhancedChatbotMonitor.  The      *)
(* clock is the wall clock in whole seconds since the epoch and does not   *)
(* go backwards.  The counters of _metrics are left out: neither           *)
(* log_interaction nor cleanup_inactive_sessions reads them.               *)
(***************************************************************************)
\* the seconds the clock may advance by in one step
ClockSteps == {1, DefaultTimeout - 1, DefaultTimeout}

\* line 120: the key f"last_activity_{session_id}"
LastActivityKey(session_id) == "last_activity_" \o session_id

\* _update_metric, lines 55-65, for 'active_sessions' and 'total_interactions':
\* whatever the operation, last_update_timestamp is set
UpdateMetricTimestamp(metrics, current_time) ==
    [metrics EXCEPT !.last_update_timestamp = current_time]

\* lines 117-120: the sessions the cleanup keeps
StillActive(active, metrics, current_time, timeout) ==
    {session_id \in active :
        current_time - Get(metrics, LastActivityKey(session_id), 0) < timeout}

\* log_interaction(session_id, question), lines 67-72
LogInteraction(session_id) ==
    /\ mon_active' = mon_active \cup {session_id}
    /\ mon_metrics' = UpdateMetricTimestamp(mon_metrics, mon_now)
    /\ mon_interaction' = [mon_interaction EXCEPT ![session_id] = [logged |-> TRUE, at |-> mon_now]]
    /\ UNCHANGED <<mon_now, mon_ticks, mon_removed, mon_kept, retrieval_vars, sim_vars,
                   score_vars, select_vars, rank_vars, api_vars, rate_vars, handler_vars>>

\* cleanup_inactive_sessions(), lines 113-121, with the default timeout
CleanupInactiveSessions ==
    /\ \E kept \in {StillActive(mon_active, mon_metrics, mon_now, DefaultTimeout)} :
          /\ mon_active' = kept
          /\ mon_kept' = kept
          /\ mon_removed' = {[session |-> s, idle |-> mon_now - mon_interaction[s].at] :
                                s \in mon_active \ kept}
    /\ UNCHANGED <<mon_now, mon_ticks, mon_metrics, mon_interaction, retrieval_vars, sim_vars,
                   score_vars, select_vars, rank_vars, api_vars, rate_vars, handler_vars>>

\* time passes
ClockTick ==
    /\ mon_ticks < MaxTicks
    /\ \E d \in ClockSteps : mon_now' = mon_now + d
    /\ mon_ticks' = mon_ticks + 1
    /\ UNCHANGED <<mon_metrics, mon_active, mon_interaction, mon_removed, mon_kept,
                   retrieval_vars, sim_vars, score_vars, select_vars, rank_vars, api_vars,
                   rate_vars, handler_vars>>

MonitorNext ==
    \/ \E session_id \in Sessions : LogInteraction(session_id)
    \/ CleanupInactiveSessions
    \/ ClockTick

MonitorInit ==
    /\ RetrievalInit /\ nltk_missing = FALSE
    /\ SinkUp
    /\ SimIdle /\ ScoreIdle /\ SelectIdle
    /\ RankIdle /\ ApiIdle /\ RateIdle /\ HandlerIdle /\ MonitorIdle

MonitorSpec == MonitorInit /\ [][MonitorNext]_vars

(***************************************************************************)
(* Properties of cleanup_inactive_sessions (checked under MonitorSpec).    *)
(***************************************************************************)
\* C22: a cleanup removes only inactive sessions: every session it removes
\* had its latest log_interaction at least timeout seconds before, so a
\* session active less than timeout seconds before the cleanup is kept.
C22_OnlyInactiveSessionsRemoved ==
    \A r \in mon_removed : r.idle >= DefaultTimeout

\* What the code does instead: no key last_activity_<session> is ever
\* written, so a cleanup keeps no session at all.
CleanupKeepsNoSession ==
    /\ mon_kept = {}
    /\ \A s \in Sessions : LastActivityKey(s) \notin DOMAIN mon_metrics

(***************************************************************************)
(* main.py: handle_user_input, called by the script run that a submit of   *)
(* the question form starts (lines 324-326).  Each session has its own     *)
(* st.session_state; a session may submit again while an earlier run of    *)
(* it has not ended, and the runs of different sessions are different      *)
(* threads.  A run is cut into steps at its accesses to the session state; *)
(* of the retrieval it keeps the read-modify-write of line 39 of           *)
(* gita_processor.py on the count of one verse v that every retrieval of   *)
(* the session selects.                                                    *)
(***************************************************************************)
\* the questions a user may submit: a question and a run of spaces
HandlerQuestions == {"karma", "   "}

\* main.py, line 35: not question.strip() or len(question) > MAX_QUESTION_LENGTH
InvalidQuestion(q) == q = "   "

\* main.py, line 9
MAX_CONVERSATION_LENGTH == 50

\* mutant of TrimConversation: the oldest entry is never dropped
TrimConversation_Never(conversation) == conversation

\* lines 84-85: conversation.pop(0) when the list is full
TrimConversation(conversation) ==
    IF Len(conversation) >= MAX_CONVERSATION_LENGTH THEN Tail(conversation) ELSE conversation

\* lines 98-107: the entry appended for an answered question; its id is the
\* length of the list before the append (the two answer texts are not kept)
ConversationEntry(conversation, q) == [question |-> q, id |-> Len(conversation)]

\* lines 68-85: the duplicate check, the rate limit (allowed is what
\* rate_limiter.is_allowed returned), processing = True and the trim of the
\* conversation; the two early returns leave through the finally of line 127
Begin(s, r, q, allowed) ==
    /\ hd_pc[s][r] = "idle"
    /\ hd_question' = [hd_question EXCEPT ![s][r] = q]
    /\ IF hd_last[s] = q \/ ~allowed
       THEN /\ hd_processing' = [hd_processing EXCEPT ![s] = FALSE]
            /\ hd_pc' = [hd_pc EXCEPT ![s][r] = "done"]
            /\ UNCHANGED hd_conversation
       ELSE /\ hd_processing' = [hd_processing EXCEPT ![s] = TRUE]
            /\ hd_conversation' = [hd_conversation EXCEPT ![s] = TrimConversation(@)]
            /\ hd_pc' = [hd_pc EXCEPT ![s][r] = "processing"]
    /\ UNCHANGED <<hd_last, hd_usage, hd_read, hd_retrievals, not_handler_vars>>

\* lines 89-92 and 108-111: process_question raises for an invalid question
\* (main.py, lines 35-36) and the handler of line 108 absorbs it
Reject(s, r) ==
    /\ hd_pc[s][r] = "processing"
    /\ InvalidQuestion(hd_question[s][r])
    /\ hd_pc' = [hd_pc EXCEPT ![s][r] = "finishing"]
    /\ UNCHANGED <<hd_question, hd_processing, hd_last, hd_usage, hd_read, hd_retrievals, hd_conversation, not_handler_vars>>

\* process_question -> find_relevant_verses -> update_usage_stats, line 39:
\* st.session_state.verse_usage.get(verse_id, 0) is read
ReadCount(s, r) ==
    /\ hd_pc[s][r] = "processing"
    /\ ~InvalidQuestion(hd_question[s][r])
    /\ hd_read' = [hd_read EXCEPT ![s][r] = hd_usage[s]]
    /\ hd_retrievals' = [hd_retrievals EXCEPT ![s] = @ + 1]
    /\ hd_pc' = [hd_pc EXCEPT ![s][r] = "read"]
    /\ UNCHANGED <<hd_question, hd_processing, hd_last, hd_usage, hd_conversation, not_handler_vars>>

\* line 39: the count read, plus one, is stored
StoreCount(s, r) ==
    /\ hd_pc[s][r] = "read"
    /\ hd_usage' = [hd_usage EXCEPT ![s] = hd_read[s][r] + 1]
    /\ hd_pc' = [hd_pc EXCEPT ![s][r] = "stored"]
    /\ UNCHANGED <<hd_question, hd_processing, hd_last, hd_read, hd_retrievals, hd_conversation, not_handler_vars>>

\* main.py, lines 93-107: the answer is recorded
Answer(s, r) ==
    /\ hd_pc[s][r] = "stored"
    /\ hd_last' = [hd_last EXCEPT ![s] = hd_question[s][r]]
    /\ hd_conversation' = [hd_conversation EXCEPT
                              ![s] = Append(@, ConversationEntry(@, hd_question[s][r]))]
    /\ hd_pc' = [hd_pc EXCEPT ![s][r] = "finishing"]
    /\ UNCHANGED <<hd_question, hd_processing, hd_usage, hd_read, hd_retrievals, not_handler_vars>>

\* lines 113-120 and the finally of lines 126-127
Finish(s, r) ==
    /\ hd_pc[s][r] = "finishing"
    /\ hd_processing' = [hd_processing EXCEPT ![s] = FALSE]
    /\ hd_pc' = [hd_pc EXCEPT ![s][r] = "done"]
    /\ UNCHANGED <<hd_question, hd_last, hd_usage, hd_read, hd_retrievals, hd_conversation, not_handler_vars>>

HandlerStep(s, r) ==
    \/ \E q \in HandlerQuestions, allowed \in BOOLEAN : Begin(s, r, q, allowed)
    \/ Reject(s, r)
    \/ ReadCount(s, r)
    \/ StoreCount(s, r)
    \/ Answer(s, r)
    \/ Finish(s, r)

HandlerNext == \E s \in Sessions, r \in Runs : HandlerStep(s, r)

HandlerInit ==
    /\ RetrievalInit /\ nltk_missing = FALSE
    /\ SinkUp
    /\ SimIdle /\ ScoreIdle /\ SelectIdle
    /\ RankIdle /\ ApiIdle /\ RateIdle /\ HandlerIdle /\ MonitorIdle

HandlerSpec == HandlerInit /\ [][HandlerNext]_vars

(***************************************************************************)
(* One session whose script runs come one after the other: the next run    *)
(* of main() starts when handle_user_input of the run before has returned. *)
(***************************************************************************)
\* the questions the user of this session may submit
ConvQuestions == HandlerQuestions \cup {"dharma"}

\* the session, and the slot its current script run takes
ConvSession == "s1"
ConvRun == 1

\* main.py, lines 324-326: the next submit of the form starts a new script
\* run, whose handle_user_input has fresh locals
Rerun(s, r) ==
    /\ hd_pc[s][r] = "done"
    /\ hd_retrievals[s] < MaxAnswered
    /\ hd_pc' = [hd_pc EXCEPT ![s][r] = "idle"]
    /\ hd_question' = [hd_question EXCEPT ![s][r] = "none"]
    /\ hd_read' = [hd_read EXCEPT ![s][r] = 0]
    /\ UNCHANGED <<hd_processing, hd_last, hd_usage, hd_retrievals, hd_conversation, not_handler_vars>>

ConvNext ==
    \/ \E q \in ConvQuestions, allowed \in BOOLEAN : Begin(ConvSession, ConvRun, q, allowed)
    \/ Reject(ConvSession, ConvRun)
    \/ ReadCount(ConvSession, ConvRun)
    \/ StoreCount(ConvSession, ConvRun)
    \/ Answer(ConvSession, ConvRun)
    \/ Finish(ConvSession, ConvRun)
    \/ Rerun(ConvSession, ConvRun)

ConvSpec == HandlerInit /\ [][ConvNext]_vars

(***************************************************************************)
(* Properties of the conversation list (checked under ConvSpec).           *)
(***************************************************************************)
\* C21: the entries held in the conversation of a session have pairwise
\* distinct ids.
C21_ConversationIdsDistinct ==
    \A s \in Sessions :
        \A i \in 1..Len(hd_conversation[s]), j \in 1..Len(hd_conversation[s]) :
            i # j => hd_conversation[s][i].id # hd_conversation[s][j].id

\* The ids are distinct as long as the list has not been full: until the
\* MAX_CONVERSATION_LENGTH-th question is answered the entries carry the
\* ids 0, 1, ... in order.
IdsArePositionsUntilFull ==
    \A s \in Sessions :
        hd_retrievals[s] < MAX_CONVERSATION_LENGTH
            => \A i \in 1..Len(hd_conversation[s]) : hd_conversation[s][i].id = i - 1

\* C23: after any sequence of calls of handle_user_input (answered, failed,
\* rate-limited or duplicate) the conversation holds at most
\* MAX_CONVERSATION_LENGTH entries, and processing is False whenever no call
\* is under way.
C23_ConversationBoundedProcessingReset ==
    /\ Len(hd_conversation[ConvSession]) <= MAX_CONVERSATION_LENGTH
    /\ hd_pc[ConvSession][ConvRun] \in {"idle", "done"} => ~hd_processing[ConvSession]

\* C23 witness: a call has returned after the conversation was full and its
\* oldest entry was dropped, and an earlier call of the session failed.
C23_Witness ==
    /\ hd_pc[ConvSession][ConvRun] = "done"
    /\ ~hd_processing[ConvSession]
    /\ hd_retrievals[ConvSession] > MAX_CONVERSATION_LENGTH
    /\ Len(hd_conversation[ConvSession]) = MAX_CONVERSATION_LENGTH
    /\ hd_conversation[ConvSession][1].id > 0
    /\ hd_question[ConvSession][ConvRun] = "   "

(***************************************************************************)
(* Properties of handle_user_input (checked under HandlerSpec).            *)
(***************************************************************************)
\* the runs of session s between processing = True (line 80) and
\* processing = False (line 127)
InFlight(s) == {r \in Runs : hd_pc[s][r] \in {"processing", "read", "stored", "finishing"}}

\* C18: at most one run of handle_user_input per session is between
\* processing = True and processing = False, so no increment of a usage
\* count is lost: the count of v is the number of retrievals that have
\* stored their increment.
C18_OneRetrievalInFlight ==
    \A s \in Sessions :
        /\ Cardinality(InFlight(s)) <= 1
        /\ hd_usage[s] + Cardinality({r \in Runs : hd_pc[s][r] = "read"}) = hd_retrievals[s]

\* The increments alone: the count of v is the number of retrievals that
\* have stored their increment.
NoLostIncrement ==
    \A s \in Sessions :
        hd_usage[s] + Cardinality({r \in Runs : hd_pc[s][r] = "read"}) = hd_retrievals[s]

(***************************************************************************)
(* Properties of the selection (checked under SelectSpec).                 *)
(***************************************************************************)
RankedChapters == {sel_ranked[i].chapter : i \in 1..Len(sel_ranked)}

\* C1: for every sorted candidate list and every top_n with
\* 1 <= top_n <= number of distinct chapters, the selection holds no chapter
\* twice.
C1_OneVersePerChapter ==
    (sel_done /\ 1 <= sel_n /\ sel_n <= Cardinality(RankedChapters))
        => \A i \in 1..Len(sel_result), j \in 1..Len(sel_result) :
              i # j => sel_result[i].chapter # sel_result[j].chapter

\* C1 witness: the two best candidates are of one chapter, top_n is the
\* number of chapters, and that many verses were selected.
C1_Witness ==
    /\ sel_done
    /\ Len(sel_ranked) >= 3
    /\ sel_ranked[1].chapter = sel_ranked[2].chapter
    /\ sel_n = Cardinality(RankedChapters)
    /\ sel_n >= 2
    /\ Len(sel_result) = sel_n

Min(a, b) == IF a <= b THEN a ELSE b

\* the candidates of a ranked list that are the first of their chapter, in
\* rank order
RECURSIVE FirstOfEachChapter(_, _)
FirstOfEachChapter(ranked, seen) ==
    IF ranked = << >> THEN << >>
    ELSE IF Head(ranked).chapter \in seen
         THEN FirstOfEachChapter(Tail(ranked), seen)
         ELSE <<Head(ranked)>>
              \o FirstOfEachChapter(Tail(ranked), seen \cup {Head(ranked).chapter})

\* the other candidates, in rank order
RECURSIVE NotFirstOfChapter(_, _)
NotFirstOfChapter(ranked, seen) ==
    IF ranked = << >> THEN << >>
    ELSE IF Head(ranked).chapter \in seen
         THEN <<Head(ranked)>> \o NotFirstOfChapter(Tail(ranked), seen)
         ELSE NotFirstOfChapter(Tail(ranked), seen \cup {Head(ranked).chapter})

\* the reference selection: the diversity pass, then the fill pass, cut at n
ReferenceSelection(ranked, n) ==
    LET all == FirstOfEachChapter(ranked, {}) \o NotFirstOfChapter(ranked, {})
    IN  SubSeq(all, 1, Min(Max(n, 0), Len(all)))

\* C11: the selection equals the reference selection over the ranked list
\* (first the best candidate of each chapter in rank order, then the other
\* candidates in rank order, until top_n), in that order and not re-sorted;
\* and on the corpus A, B (chapter 1), C (chapter 2) with similarities 0.9,
\* 0.1, 0.8, no prior usage and top_n = 2 the result is A then C.
C11_SelectionIsReference ==
    sel_done =>
        /\ sel_result = ReferenceSelection(sel_ranked, sel_n)
        /\ (sel_ranked \in ScenarioRankings /\ sel_n = 2)
              => SelectedIndices(sel_result) = <<1, 3>>

\* C11 witness: three verses were selected and the third, taken by the fill
\* pass, has a higher score than the second, taken by the diversity pass.
C11_Witness ==
    /\ sel_done
    /\ Len(sel_result) = 3
    /\ sel_result = ReferenceSelection(sel_ranked, sel_n)
    /\ QLess(sel_result[2].score, sel_result[3].score)

(***************************************************************************)
(* Properties of the scoring and sort (checked under RankSpec).            *)
(***************************************************************************)
\* position of verse idx in the sorted list, and its final score
RankOf(idx) == CHOOSE i \in 1..Len(rk_sorted) : rk_sorted[i].index = idx
FinalScoreOf(idx) == rk_sorted[RankOf(idx)].score

\* base * penalty * boost of verse idx: the final score without the jitter
RelevanceOf(idx) ==
    CalculateVerseScore(rk_sims[idx], ScenarioId(idx), ScenarioChapters[idx],
                        rk_vu, rk_lv, rk_cu, 100)

\* C14: on the corpus A, B, C with similarities 0.9, 0.1, 0.8, when A has
\* been selected twice and C has not been selected (so C is neither counted
\* nor last served), C is ranked above A and final_score(C) > final_score(A)
\* for every draw of the random factors.
C14_UsedTwiceRanksBelow ==
    (/\ rk_done
     /\ rk_sims = ScenarioSims
     /\ Get(rk_vu, ScenarioId(1), 0) = 2
     /\ Get(rk_vu, ScenarioId(3), 0) = 0
     /\ ScenarioId(3) \notin rk_lv)
        => /\ RankOf(3) < RankOf(1)
           /\ QLess(FinalScoreOf(1), FinalScoreOf(3))

\* C14 witness: the draw most favourable to A (A at 1.05 and not last
\* served, B never selected, C at 0.95), and C is ranked first.
C14_Witness ==
    /\ rk_done
    /\ rk_sims = ScenarioSims
    /\ Get(rk_vu, ScenarioId(1), 0) = 2
    /\ Get(rk_vu, ScenarioId(2), 0) = 0
    /\ Get(rk_vu, ScenarioId(3), 0) = 0
    /\ rk_lv = {}
    /\ rk_jit[1] = JitterHigh
    /\ rk_jit[3] = JitterLow
    /\ RankOf(3) = 1
    /\ RankOf(1) = 2

\* C15: the list handed to the selection holds every candidate once, in
\* non-increasing order of final_score, and candidates of equal final_score
\* are in corpus order.
C15_SortedStableDescending ==
    rk_done =>
        /\ Len(rk_sorted) = ScenarioSize
        /\ {rk_sorted[i].index : i \in 1..Len(rk_sorted)} = 1..ScenarioSize
        /\ \A i \in 1..Len(rk_sorted), j \in 1..Len(rk_sorted) :
              i < j => /\ QLeq(rk_sorted[j].score, rk_sorted[i].score)
                       /\ QEq(rk_sorted[j].score, rk_sorted[i].score)
                             => rk_sorted[i].index < rk_sorted[j].index

\* C15 witness: the third verse of the corpus is ranked first, and the
\* first two have the same positive final score and follow in corpus order.
C15_Witness ==
    /\ rk_done
    /\ rk_sorted[1].index = 3
    /\ rk_sorted[2].index = 1
    /\ rk_sorted[3].index = 2
    /\ QEq(rk_sorted[2].score, rk_sorted[3].score)
    /\ rk_sorted[2].score.n > 0

\* C17: in one ranking pass, a verse X whose base * penalty * boost is more
\* than 1.05/0.95 times that of a verse Y is ranked before Y, whatever the
\* two random factors drawn.
C17_JitterCannotOverrideGap ==
    rk_done =>
        \A x \in 1..ScenarioSize, y \in 1..ScenarioSize :
            QLess(QMul(Q(JitterHigh, JitterLow), RelevanceOf(y)), RelevanceOf(x))
                => RankOf(x) < RankOf(y)

\* C17 witness: X comes after Y in the corpus, Y is relevant, X drew the
\* lowest factor and Y the highest, the gap is less than 1.2, and X is
\* ranked before Y.
C17_Witness ==
    /\ rk_done
    /\ \E x \in 1..ScenarioSize, y \in 1..ScenarioSize :
          /\ y < x
          /\ RelevanceOf(y).n > 0
          /\ QLess(QMul(Q(JitterHigh, JitterLow), RelevanceOf(y)), RelevanceOf(x))
          /\ QLess(RelevanceOf(x), QMul(Q(6, 5), RelevanceOf(y)))
          /\ rk_jit[x] = JitterLow
          /\ rk_jit[y] = JitterHigh
          /\ RankOf(x) < RankOf(y)

(***************************************************************************)
(* Properties of find_relevant_verses (checked under Spec).                *)
(***************************************************************************)
ReturnedIds == {VerseIdOf(returned[i]) : i \in 1..Len(returned)}
ReturnedInChapter(c) == Cardinality({i \in 1..Len(returned) : Corpus[returned[i]].chapter = c})
ReturnedChapters == {Corpus[returned[i]].chapter : i \in 1..Len(returned)}
UsageUnchanged ==
    /\ verse_usage = pre_verse_usage
    /\ chapter_usage = pre_chapter_usage
    /\ last_verses = pre_last_verses
UsageUpdatedFor(rows) ==
    /\ \A v \in VerseIds :
          Get(verse_usage, v, 0) = Get(pre_verse_usage, v, 0)
              + Cardinality({i \in 1..Len(rows) : VerseIdOf(rows[i]) = v})
    /\ \A c \in Chapters :
          Get(chapter_usage, c, 0) = Get(pre_chapter_usage, c, 0)
              + Cardinality({i \in 1..Len(rows) : Corpus[rows[i]].chapter = c})
    /\ last_verses = LastVersesOf(rows)

\* The same property of the rows find_relevant_verses returns, on the corpus
\* of Spec.
ReturnedOneVersePerChapter ==
    (outcome # "none" /\ 1 <= top_n /\ top_n <= Cardinality(Chapters))
        => \A i \in 1..Len(returned), j \in 1..Len(returned) :
              i # j => Corpus[returned[i]].chapter # Corpus[returned[j]].chapter

\* C2: with a non-empty corpus and the default top_n, a call with the empty
\* or whitespace-only question returns an empty sequence and does not raise
\* (stated for the installation that has its NLTK data).
C2_BlankQuestionReturnsEmpty ==
    (/\ outcome # "none"
     /\ ~nltk_missing
     /\ question = << >>
     /\ top_n = DefaultTopN
     /\ NumVerses > 0)
        => (returned = << >> /\ ~raised)

\* C3 as stated: no exception escapes, and whenever a step of the pipeline
\* fails (here: the semantic step of the scorer, or the metric computation)
\* the call returns the empty result and emits exactly one error event.
C3_AnyFailureGivesEmptyResult ==
    outcome # "none" =>
        /\ ~raised
        /\ (error_log.semantic_similarity > 0 \/ outcome = "failed")
              => /\ returned = << >>
                 /\ error_log.semantic_similarity + error_log.find_relevant_verses = 1

\* C3 amended: no exception escapes; a failure that reaches the handler of
\* find_relevant_verses gives the empty result and exactly one error event of
\* context find_relevant_verses; a failure of the semantic step is absorbed
\* by the scorer (one semantic_similarity event per failing verse) and does
\* not make the call fail: with top_n >= 1 it still returns a selection.
C3_BoundaryFailureGivesEmptyResult ==
    outcome # "none" =>
        /\ ~raised
        /\ outcome = "failed" => (returned = << >> /\ error_log.find_relevant_verses = 1)
        /\ outcome = "ok" => error_log.find_relevant_verses = 0
        /\ (outcome = "ok" /\ top_n >= 1) => Len(returned) >= 1

\* C3 witness: a call failed in its metric computation, was caught by the
\* handler, and returned the empty result with one error event.
C3_Witness ==
    /\ outcome = "failed"
    /\ ~raised
    /\ returned = << >>
    /\ error_log.find_relevant_verses = 1

\* C4: every call either applies the whole usage update for the returned
\* selection or leaves verse_usage, chapter_usage and last_verses unchanged,
\* and a call that ends in the failure result changes none of them.
C4_UsageUpdateAllOrNothing ==
    outcome # "none" =>
        /\ UsageUpdatedFor(returned) \/ UsageUnchanged
        /\ outcome = "failed" => UsageUnchanged

\* C5 as stated: the chapter count of every chapter of a returned verse is
\* exactly 1 higher than before the call.
C5_ChapterCountPlusOne ==
    (outcome = "ok" /\ top_n >= 1)
        => \A c \in ReturnedChapters :
              Get(chapter_usage, c, 0) = Get(pre_chapter_usage, c, 0) + 1

\* C5 amended: the chapter count of every chapter of a returned verse is
\* higher than before the call by the number of returned verses of that
\* chapter (1 when the selection holds one verse of the chapter).
C5_ChapterCountPlusVerses ==
    (outcome = "ok" /\ top_n >= 1)
        => \A c \in ReturnedChapters :
              Get(chapter_usage, c, 0) = Get(pre_chapter_usage, c, 0) + ReturnedInChapter(c)

\* C5 witness: a recorded selection with two verses of one chapter, whose
\* chapter had been served before.
C5_Witness ==
    /\ outcome = "ok"
    /\ \E c \in ReturnedChapters : ReturnedInChapter(c) = 2 /\ Get(pre_chapter_usage, c, 0) >= 1

\* C6: after a retrieval records the selection V, the usage count of every
\* verse of V is exactly 1 higher than before and that of every other verse
\* is unchanged.
C6_VerseCountPlusOne ==
    outcome = "ok"
        => \A v \in VerseIds :
              Get(verse_usage, v, 0) =
                  Get(pre_verse_usage, v, 0) + (IF v \in ReturnedIds THEN 1 ELSE 0)

\* C6 witness: a second retrieval returned a verse served before and left
\* out another verse served before.
C6_Witness ==
    /\ outcome = "ok"
    /\ \E v \in ReturnedIds : Get(pre_verse_usage, v, 0) >= 1
    /\ \E v \in VerseIds \ ReturnedIds : Get(pre_verse_usage, v, 0) >= 1

\* C7: after every retrieval that returns the selection V, last_verses is
\* exactly the set of verse ids of V, so no id of the selection before
\* survives unless V holds it too.
C7_LastServedIsReturned ==
    outcome # "none" => last_verses = ReturnedIds

\* C7 witness: the second of two retrievals returned a non-empty selection
\* that lacks a verse of the first selection.
C7_Witness ==
    /\ calls = 2
    /\ outcome = "ok"
    /\ returned # << >>
    /\ pre_last_verses \ ReturnedIds # {}

\* C12: on the corpus of N verses a call with top_n >= 1 returns exactly
\* min(top_n, N) verses, none of them twice (all N when N < top_n), and a
\* call with top_n <= 0 returns the empty sequence.
C12_ReturnsMinOfTopNAndCorpus ==
    outcome # "none" =>
        /\ top_n >= 1 =>
              /\ Len(returned) = Min(top_n, NumVerses)
              /\ \A i \in 1..Len(returned), j \in 1..Len(returned) :
                    i # j => returned[i] # returned[j]
        /\ top_n <= 0 => returned = << >>

\* C12 witness: a call with top_n above the size of the corpus returned
\* every verse.
C12_Witness ==
    /\ outcome = "ok"
    /\ top_n > NumVerses
    /\ Len(returned) = NumVerses
    /\ Range(returned) = 1..NumVerses

\* The same property of the selection, for sorted lists of every length up
\* to MaxRanked (checked under SelectSpec).
SelectionHasMinOfTopNAndList ==
    sel_done =>
        /\ Len(sel_result) = Min(Max(sel_n, 0), Len(sel_ranked))
        /\ \A i \in 1..Len(sel_result), j \in 1..Len(sel_result) :
              i # j => sel_result[i].index # sel_result[j].index

RECURSIVE VerseUsageOfChapter(_, _)
VerseUsageOfChapter(c, upto) ==
    IF upto = 0 THEN 0
    ELSE VerseUsageOfChapter(c, upto - 1)
            + (IF Corpus[upto].chapter = c THEN Get(verse_usage, VerseIdOf(upto), 0) ELSE 0)

\* C24: in every usage state reached from the empty one by retrievals, the
\* count of each chapter equals the sum of the counts of the verses of that
\* chapter, and every verse id of last_verses has a count of at least 1.
C24_ChapterCountIsSumOfVerseCounts ==
    /\ \A c \in Chapters \cup DOMAIN chapter_usage :
          Get(chapter_usage, c, 0) = VerseUsageOfChapter(c, NumVerses)
    /\ DOMAIN verse_usage \subseteq VerseIds
    /\ \A v \in last_verses : Get(verse_usage, v, 0) >= 1

\* C24 witness: after two retrievals a chapter with two verses has a count
\* of at least 3 spread over both of its verses, and the last selection is
\* not empty.
C24_Witness ==
    /\ calls = 2
    /\ outcome = "ok"
    /\ last_verses # {}
    /\ \E c \in Chapters :
          /\ Get(chapter_usage, c, 0) >= 3
          /\ Cardinality({v \in DOMAIN verse_usage : v[1] = c}) = 2

(***************************************************************************)
(* Properties of calculate_similarity (checked under SimSpec).             *)
(***************************************************************************)
\* C8: for every pair of normalised texts and every semantic relatedness
\* between their tokens, calculate_similarity lies in [0, 1].
C8_SimilarityInUnitInterval ==
    sim_done => (QLeq(Q(0, 1), sim_result) /\ QLeq(sim_result, Q(1, 1)))

\* C9: for every non-empty normalised text a, calculate_similarity(a, a) is
\* 1, whatever tokens a holds, known to the semantic resource or not (stated
\* for an available semantic resource).
C9_SelfSimilarityIsOne ==
    (sim_done /\ ~sim_missing /\ sim_text1 = sim_text2 /\ sim_text1 # << >>)
        => QEq(sim_result, Q(1, 1))

\* C16: when the semantic step fails (the semantic resource is unavailable)
\* calculate_similarity returns the pure Jaccard value |intersection|/|union|
\* of the two token sets (0 when the union is empty), and when the semantic
\* term is computable it returns 0.6*jaccard + 0.4*semantic.
C16_FallbackIsPureJaccard ==
    sim_done =>
        LET set1 == Range(sim_text1)
            set2 == Range(sim_text2)
            union == Cardinality(set1 \cup set2)
            jaccard == IF union = 0 THEN Q(0, 1)
                       ELSE Q(Cardinality(set1 \cap set2), union)
        IN  IF sim_errors > 0
            THEN QEq(sim_result, jaccard)
            ELSE QEq(sim_result,
                     QAdd(QMul(Q(6, 10), jaccard),
                          QMul(Q(4, 10),
                               SemanticSim(set1, set2, sim_known, sim_related, ~sim_missing))))

(***************************************************************************)
(* Properties of calculate_verse_score (checked under ScoreSpec).          *)
(***************************************************************************)
UsageOf(idx) == Get(verse_usage, VerseIdOf(idx), 0)
ChapterUsageOf(idx) == Get(chapter_usage, Corpus[idx].chapter, 0)
WasLastServed(idx) == VerseIdOf(idx) \in last_verses

\* C10 as stated: of two verses with the same base similarity and jitter,
\* the one with the higher usage count, or the one in last_verses when the
\* other is not, gets the strictly lower final score.
C10_PenalisedVerseScoresLower ==
    (sc_done /\ (UsageOf(sc_x) > UsageOf(sc_y)
                 \/ (WasLastServed(sc_x) /\ ~WasLastServed(sc_y))))
        => QLess(sc_fx, sc_fy)

\* C10 amended: of two verses with the same positive base similarity, the
\* same jitter and the same chapter usage, the one that is penalised at
\* least as much on both counts (usage count, membership of last_verses) and
\* more on one of them gets the strictly lower final score.
C10_DominatedVerseScoresLower ==
    (/\ sc_done
     /\ sc_base.n > 0
     /\ ChapterUsageOf(sc_x) = ChapterUsageOf(sc_y)
     /\ UsageOf(sc_x) >= UsageOf(sc_y)
     /\ WasLastServed(sc_y) => WasLastServed(sc_x)
     /\ (UsageOf(sc_x) > UsageOf(sc_y) \/ (WasLastServed(sc_x) /\ ~WasLastServed(sc_y))))
        => QLess(sc_fx, sc_fy)

\* C10 witness: two verses of equal chapter usage and equal usage count, one
\* of them in last_verses and the other not, scored with a positive base.
C10_Witness ==
    /\ sc_done
    /\ sc_base.n > 0
    /\ ChapterUsageOf(sc_x) = ChapterUsageOf(sc_y)
    /\ UsageOf(sc_x) = UsageOf(sc_y)
    /\ WasLastServed(sc_x) /\ ~WasLastServed(sc_y)
    /\ QLess(sc_fx, sc_fy)

====
